---- MODULE Spec2Model ----
(***************************************************************************)
(* Model of src/spi.rs: the embedded-hal SPI traits implemented for the    *)
(* Spidev newtype.  The handle has no state of its own beyond the          *)
(* transport; what is modelled is each call: the caller's buffers, the     *)
(* transfer descriptors the call builds, the calls it makes on the         *)
(* transport (self.0) in order, and the value it returns.                  *)
(*                                                                         *)
(* SpiBus::read and SpiBus::write (lines 59-65) go through read_exact and  *)
(* write_all and build no descriptor; they are not modelled.               *)
(***************************************************************************)
EXTENDS Integers, Sequences, FiniteSets

VARIABLES pc, entry, args, bufs, tx, log, result

vars == <<pc, entry, args, bufs, tx, log, result>>

----------------------------------------------------------------------------
(* Bounds of the model *)

\* longest caller buffer
MaxLen == 2

\* longest operation list handed to transaction
MaxOps == 2

(* Program constants *)

\* u16::MAX, the fallback of the delay conversion
U16_MAX == 65535

\* DelayUs payloads (u32) tried: small, the u16 edge on both sides, large, and
\* the largest integer the model checker represents (2^31 - 1)
Delays == {100, U16_MAX, U16_MAX + 1, 100000, 2147483647}

\* io::Error values the transport may return
IoErrors == {"EIO", "ETIMEDOUT"}

----------------------------------------------------------------------------
(* Buffers.  A write-side buffer of length n holds 1, 2, .., n, so that    *)
(* every position is told apart; a read-side buffer starts as [0; n].      *)

Fill(n) == [i \in 1..n |-> i]

Zeros(n) == [i \in 1..n |-> 0]

(* embedded_hal::spi::Operation<'_, u8>.  One record shape for the five    *)
(* variants; a field a variant does not have is empty.                     *)

OpRead(n) ==
    [tag |-> "Read", buf |-> Zeros(n), read |-> <<>>, write |-> <<>>, us |-> 0]

OpWrite(n) ==
    [tag |-> "Write", buf |-> Fill(n), read |-> <<>>, write |-> <<>>, us |-> 0]

OpTransfer(r, w) ==
    [tag |-> "Transfer", buf |-> <<>>, read |-> Zeros(r), write |-> Fill(w), us |-> 0]

OpTransferInPlace(n) ==
    [tag |-> "TransferInPlace", buf |-> Fill(n), read |-> <<>>, write |-> <<>>, us |-> 0]

OpDelayUs(us) ==
    [tag |-> "DelayUs", buf |-> <<>>, read |-> <<>>, write |-> <<>>, us |-> us]

Operations ==
    {OpRead(n) : n \in 0..MaxLen} \cup {OpWrite(n) : n \in 0..MaxLen}
    \cup {OpTransfer(r, w) : r \in 0..MaxLen, w \in 0..MaxLen}
    \cup {OpTransferInPlace(n) : n \in 0..MaxLen}
    \cup {OpDelayUs(us) : us \in Delays}

OperationLists == UNION {[1..n -> Operations] : n \in 0..MaxOps}

(* A slice: the storage it points into (operation i's buffer `field`, or   *)
(* the call's owned copy "tx") and the half-open range lo..hi of it,       *)
(* counted from 0 as the source does.                                      *)

Slice(i, field, lo, hi) == [op |-> i, field |-> field, lo |-> lo, hi |-> hi]

\* a descriptor side that is not set
NoBuf == [op |-> 0, field |-> "none", lo |-> 0, hi |-> 0]

SliceLen(s) == s.hi - s.lo

----------------------------------------------------------------------------
(* spidev::SpidevTransfer, by the constructor the source calls *)

SpidevTransfer_read(rx) ==
    [kind |-> "read", tx_buf |-> NoBuf, rx_buf |-> rx, delay_usecs |-> 0]

SpidevTransfer_write(txb) ==
    [kind |-> "write", tx_buf |-> txb, rx_buf |-> NoBuf, delay_usecs |-> 0]

SpidevTransfer_read_write(txb, rx) ==
    [kind |-> "read_write", tx_buf |-> txb, rx_buf |-> rx, delay_usecs |-> 0]

SpidevTransfer_delay(us) ==
    [kind |-> "delay", tx_buf |-> NoBuf, rx_buf |-> NoBuf, delay_usecs |-> us]

----------------------------------------------------------------------------
(* Faulty variants of the code, each one slip away from the definition it  *)
(* stands before; the properties below are checked to tell them apart.     *)

\* the longer read buffer is not split: the trailing read fills it from the start
BusTransferPlan_UnsplitRead(read, write) ==
    LET read_len == Len(read)
        write_len == Len(write)
    IN  IF read_len < write_len
        THEN [call |-> "transfer_multiple",
              descs |-> << SpidevTransfer_read_write(Slice(1, "write", 0, read_len),
                                                     Slice(1, "read", 0, read_len)),
                           SpidevTransfer_write(Slice(1, "write", read_len, write_len)) >>]
        ELSE IF read_len = write_len
        THEN [call |-> "transfer",
              descs |-> << SpidevTransfer_read_write(Slice(1, "write", 0, write_len),
                                                     Slice(1, "read", 0, read_len)) >>]
        ELSE [call |-> "transfer_multiple",
              descs |-> << SpidevTransfer_read_write(Slice(1, "write", 0, write_len),
                                                     Slice(1, "read", 0, write_len)),
                           SpidevTransfer_read(Slice(1, "read", 0, read_len)) >>]

\* no three-way rule: one duplex descriptor over both buffers whatever their lengths
BusTransferPlan_NoSplit(read, write) ==
    [call |-> "transfer",
     descs |-> << SpidevTransfer_read_write(Slice(1, "write", 0, Len(write)),
                                            Slice(1, "read", 0, Len(read))) >>]

(* SpiBus::transfer, lines 67-84: the descriptors and the transport call   *)

BusTransferPlan(read, write) ==
    LET read_len == Len(read)
        write_len == Len(write)
    IN  IF read_len < write_len
        THEN [call |-> "transfer_multiple",
              descs |-> << SpidevTransfer_read_write(Slice(1, "write", 0, read_len),
                                                     Slice(1, "read", 0, read_len)),
                           SpidevTransfer_write(Slice(1, "write", read_len, write_len)) >>]
        ELSE IF read_len = write_len
        THEN [call |-> "transfer",
              descs |-> << SpidevTransfer_read_write(Slice(1, "write", 0, write_len),
                                                     Slice(1, "read", 0, read_len)) >>]
        ELSE [call |-> "transfer_multiple",
              descs |-> << SpidevTransfer_read_write(Slice(1, "write", 0, write_len),
                                                     Slice(1, "read", 0, write_len)),
                           SpidevTransfer_read(Slice(1, "read", write_len, read_len)) >>]

(* SpiBus::transfer_in_place, lines 89-91: tx = words.to_owned() *)

BusInPlacePlan(words) ==
    [call |-> "transfer",
     descs |-> << SpidevTransfer_read_write(Slice(1, "tx", 0, Len(words)),
                                            Slice(1, "buf", 0, Len(words))) >>]

\* a truncating cast (us as u16) in place of the checked conversion
DelayToU16_Wraps(us) == us % (U16_MAX + 1)

\* us.try_into().unwrap_or(u16::MAX), line 137: u32 to u16, u16::MAX when it does not fit

DelayToU16(us) == IF us <= U16_MAX THEN us ELSE U16_MAX

\* the trailing write sends the whole write buffer again instead of write[n..]
TransferOpTransfers_WholeTail(i, read, write) ==
    IF Len(read) < Len(write)
    THEN << SpidevTransfer_read_write(Slice(i, "write", 0, Len(read)),
                                      Slice(i, "read", 0, Len(read))),
            SpidevTransfer_write(Slice(i, "write", 0, Len(write))) >>
    ELSE IF Len(read) = Len(write)
    THEN << SpidevTransfer_read_write(Slice(i, "write", 0, Len(write)),
                                      Slice(i, "read", 0, Len(read))) >>
    ELSE << SpidevTransfer_read_write(Slice(i, "write", 0, Len(write)),
                                      Slice(i, "read", 0, Len(write))),
            SpidevTransfer_read(Slice(i, "read", Len(write), Len(read))) >>

\* equal lengths fall into the shorter-read branch (<= for <)
TransferOpTransfers_EqualAsLess(i, read, write) ==
    IF Len(read) <= Len(write)
    THEN << SpidevTransfer_read_write(Slice(i, "write", 0, Len(read)),
                                      Slice(i, "read", 0, Len(read))),
            SpidevTransfer_write(Slice(i, "write", Len(read), Len(write))) >>
    ELSE << SpidevTransfer_read_write(Slice(i, "write", 0, Len(write)),
                                      Slice(i, "read", 0, Len(write))),
            SpidevTransfer_read(Slice(i, "read", Len(write), Len(read))) >>

(* SpiDevice::transaction, lines 116-128: what a Transfer(read, write)     *)
(* operation at position i pushes                                          *)

TransferOpTransfers(i, read, write) ==
    IF Len(read) < Len(write)
    THEN LET n == Len(read)
         IN  << SpidevTransfer_read_write(Slice(i, "write", 0, n),
                                          Slice(i, "read", 0, Len(read))),
                SpidevTransfer_write(Slice(i, "write", n, Len(write))) >>
    ELSE IF Len(read) = Len(write)
    THEN << SpidevTransfer_read_write(Slice(i, "write", 0, Len(write)),
                                      Slice(i, "read", 0, Len(read))) >>
    ELSE << SpidevTransfer_read_write(Slice(i, "write", 0, Len(write)),
                                      Slice(i, "read", 0, Len(write))),
            SpidevTransfer_read(Slice(i, "read", Len(write), Len(read))) >>

(* lines 129-135: tx = from_raw_parts(buf.as_ptr(), buf.len()) is a slice  *)
(* over the storage of buf itself, not a copy                              *)

InPlaceOpTransfers(i, buf) ==
    << SpidevTransfer_read_write(Slice(i, "buf", 0, Len(buf)),
                                 Slice(i, "buf", 0, Len(buf))) >>

(* lines 113-140: what the operation at position i pushes *)

OpTransfers(i, op) ==
    IF op.tag = "Read"
    THEN << SpidevTransfer_read(Slice(i, "buf", 0, Len(op.buf))) >>
    ELSE IF op.tag = "Write"
    THEN << SpidevTransfer_write(Slice(i, "buf", 0, Len(op.buf))) >>
    ELSE IF op.tag = "Transfer"
    THEN TransferOpTransfers(i, op.read, op.write)
    ELSE IF op.tag = "TransferInPlace"
    THEN InPlaceOpTransfers(i, op.buf)
    ELSE << SpidevTransfer_delay(DelayToU16(op.us)) >>

\* the loop puts each operation's descriptors in front of the earlier ones
RECURSIVE TransfersFrom(_, _)
TransfersFrom(operations, n) ==
    IF n > Len(operations) THEN << >>
    ELSE TransfersFrom(operations, n + 1) \o OpTransfers(n, operations[n])

Transfers_LastFirst(operations) == TransfersFrom(operations, 1)

(* the loop of lines 111-141: transfers after operations 1..n *)

RECURSIVE TransfersUpTo(_, _)
TransfersUpTo(operations, n) ==
    IF n = 0 THEN << >>
    ELSE TransfersUpTo(operations, n - 1) \o OpTransfers(n, operations[n])

Transfers(operations) == TransfersUpTo(operations, Len(operations))

----------------------------------------------------------------------------
(* The transport (spidev::Spidev, self.0) and the peripheral behind it.    *)
(* It is handed a list of descriptors in one call, runs them in order and  *)
(* returns Ok or an io::Error; a failing call has run the descriptors      *)
(* before the failing one.                                                 *)

\* the byte the peripheral answers to a byte clocked out
Device(b) == 255 - b

\* the bytes of the storage a slice points into
Storage(s, o, t) == IF s.field = "tx" THEN t ELSE o[s.op][s.field]

\* the bytes a slice denotes
SliceBytes(s, o, t) == [k \in 1..SliceLen(s) |-> Storage(s, o, t)[s.lo + k]]

\* whether the write source and the read target of a descriptor share bytes of storage
Aliased(d) ==
    /\ d.tx_buf # NoBuf
    /\ d.rx_buf # NoBuf
    /\ d.tx_buf.op = d.rx_buf.op
    /\ d.tx_buf.field = d.rx_buf.field
    /\ d.tx_buf.lo < d.rx_buf.hi
    /\ d.rx_buf.lo < d.tx_buf.hi

(* The bytes clocked out for a descriptor.  A shared slice over storage    *)
(* that is stored into during the same exchange (lines 130-134) gives no   *)
(* order between the fetch of a byte and the stores: with `stale` the      *)
(* transport has prepared (zeroed) the read target before fetching.        *)

Sent(d, o, t, stale) ==
    IF d.tx_buf = NoBuf THEN Zeros(SliceLen(d.rx_buf))
    ELSE IF Aliased(d) /\ stale THEN Zeros(SliceLen(d.tx_buf))
    ELSE SliceBytes(d.tx_buf, o, t)

\* the caller's buffers after one descriptor has run
ExecOne(d, o, t, stale) ==
    IF d.rx_buf = NoBuf THEN o
    ELSE LET rx == d.rx_buf
             sent == Sent(d, o, t, stale)
             got(k) == IF k \in DOMAIN sent THEN Device(sent[k]) ELSE Device(0)
         IN  [o EXCEPT ![rx.op][rx.field] =
                 [j \in 1..Len(@) |->
                     IF rx.lo < j /\ j <= rx.hi THEN got(j - rx.lo) ELSE @[j]]]

\* the caller's buffers after the first n descriptors have run, in order
\* (the buffers after n - 1 descriptors are bound as a value before descriptor n runs)
RECURSIVE ExecUpTo(_, _, _, _, _)
ExecUpTo(descs, n, o, t, stale) ==
    IF n = 0 THEN o
    ELSE CHOOSE after \in { ExecOne(descs[n], before, t, stale) :
                                before \in { ExecUpTo(descs, n - 1, o, t, stale) } } : TRUE

\* how many descriptors a call returning ret may have run
RunCounts(descs, ret) ==
    IF ret = "ok" THEN {Len(descs)}
    ELSE IF Len(descs) = 0 THEN {0}
    ELSE 0..(Len(descs) - 1)

\* what a transport call may return
Returns == {"ok"} \cup IoErrors

\* what the flush of lines 145 may return: it is called only after a submission
\* that returned Ok ("unused" stands for the call that does not happen)
FlushReturns(submitRet) == IF submitRet = "ok" THEN Returns ELSE {"unused"}

\* the order of fetch and store matters only to a descriptor that aliases
StaleChoices(descs) ==
    IF \E k \in 1..Len(descs) : Aliased(descs[k]) THEN BOOLEAN ELSE {FALSE}

\* the buffers a call returning ret may leave: every descriptor has run when it
\* returns Ok, those before the failing one when it returns an error
Outcomes(descs, ret, o, t) ==
    { ExecUpTo(descs, n, o, t, stale) :
          n \in RunCounts(descs, ret), stale \in StaleChoices(descs) }

\* one entry of the trace of transport calls
Called(call, descs, ret) == [call |-> call, descs |-> descs, ret |-> ret]

----------------------------------------------------------------------------
(* Results: Result<(), SPIError>, SPIError { err } wrapping the io::Error  *)

Ok == [ok |-> TRUE, err |-> "none"]

Err(e) == [ok |-> FALSE, err |-> e]

\* .map_err(|err| SPIError { err }), lines 85, 92, 96, 144
MapErr(ret) == IF ret = "ok" THEN Ok ELSE Err(ret)

(* SpiBus::flush, lines 95-97 *)

BusFlush(ret) ==
    [log |-> << Called("flush", << >>, ret) >>, result |-> MapErr(ret)]

\* the submission's error is kept but not returned at once: flush runs first
SubmitAndFlush_AlwaysFlushes(transfers, submitRet, flushRet) ==
    LET submitted == << Called("transfer_multiple", transfers, submitRet) >>
        flushed == BusFlush(flushRet)
    IN  IF submitRet # "ok"
        THEN [log |-> submitted \o flushed.log, result |-> MapErr(submitRet)]
        ELSE IF flushRet # "ok"
        THEN [log |-> submitted \o flushed.log, result |-> flushed.result]
        ELSE [log |-> submitted \o flushed.log, result |-> Ok]

\* the flush's result is dropped (let _ = self.flush())
SubmitAndFlush_IgnoresFlush(transfers, submitRet, flushRet) ==
    LET submitted == << Called("transfer_multiple", transfers, submitRet) >>
    IN  IF submitRet # "ok"
        THEN [log |-> submitted, result |-> MapErr(submitRet)]
        ELSE [log |-> submitted \o BusFlush(flushRet).log, result |-> Ok]

(* lines 142-146: transfer_multiple(&mut transfers)?; self.flush()?; Ok(()) *)

SubmitAndFlush(transfers, submitRet, flushRet) ==
    LET submitted == << Called("transfer_multiple", transfers, submitRet) >>
    IN  IF submitRet # "ok"
        THEN [log |-> submitted, result |-> MapErr(submitRet)]
        ELSE LET flushed == BusFlush(flushRet)
             IN  IF flushRet # "ok"
                 THEN [log |-> submitted \o flushed.log, result |-> flushed.result]
                 ELSE [log |-> submitted \o flushed.log, result |-> Ok]

----------------------------------------------------------------------------
(* State.  pc: "idle" between calls, "returned" once a call has returned;  *)
(* entry: the method called; args: the caller's buffers as passed in;      *)
(* bufs: the same buffers when the call returns; tx: the owned copy of     *)
(* transfer_in_place; log: the calls made on the transport, in order;      *)
(* result: what the call returned.                                         *)

Pending == [ok |-> FALSE, err |-> "pending"]

Init ==
    /\ pc = "idle"
    /\ entry = "none"
    /\ args = << >>
    /\ bufs = << >>
    /\ tx = << >>
    /\ log = << >>
    /\ result = Pending

(* SpiBus::transfer(read, write), lines 67-86 *)

Transfer(r, w, ret) ==
    /\ pc = "idle"
    /\ LET ops == << OpTransfer(r, w) >>
           plan == BusTransferPlan(ops[1].read, ops[1].write)
       IN  /\ entry' = "transfer"
           /\ args' = ops
           /\ tx' = << >>
           /\ log' = << Called(plan.call, plan.descs, ret) >>
           /\ bufs' \in Outcomes(plan.descs, ret, ops, << >>)
           /\ result' = MapErr(ret)
    /\ pc' = "returned"

(* SpiBus::transfer_in_place(words), lines 88-93 *)

TransferInPlace(len, ret) ==
    /\ pc = "idle"
    /\ LET ops == << OpTransferInPlace(len) >>
           copy == ops[1].buf
           plan == BusInPlacePlan(ops[1].buf)
       IN  /\ entry' = "transfer_in_place"
           /\ args' = ops
           /\ tx' = copy
           /\ log' = << Called(plan.call, plan.descs, ret) >>
           /\ bufs' \in Outcomes(plan.descs, ret, ops, copy)
           /\ result' = MapErr(ret)
    /\ pc' = "returned"

(* SpiBus::flush(), lines 95-97 *)

Flush(ret) ==
    /\ pc = "idle"
    /\ entry' = "flush"
    /\ args' = << >>
    /\ bufs' = << >>
    /\ tx' = << >>
    /\ log' = BusFlush(ret).log
    /\ result' = BusFlush(ret).result
    /\ pc' = "returned"

(* SpiDevice::transaction(operations), lines 107-147 *)

Transaction(operations, submitRet, flushRet) ==
    /\ pc = "idle"
    /\ LET transfers == Transfers(operations)
           out == SubmitAndFlush(transfers, submitRet, flushRet)
       IN  /\ entry' = "transaction"
           /\ args' = operations
           /\ tx' = << >>
           /\ log' = out.log
           /\ bufs' \in Outcomes(transfers, submitRet, operations, << >>)
           /\ result' = out.result
    /\ pc' = "returned"

(* The caller takes the result; its borrows of the buffers end and the     *)
(* handle is free for the next call.                                       *)

Release ==
    /\ pc = "returned"
    /\ pc' = "idle"
    /\ entry' = "none"
    /\ args' = << >>
    /\ bufs' = << >>
    /\ tx' = << >>
    /\ log' = << >>
    /\ result' = Pending

(* The calls a caller can make.  A call starts only on a free handle, so   *)
(* the guard stands before the inputs are drawn.                           *)

CallTransfer ==
    pc = "idle" /\ \E r \in 0..MaxLen, w \in 0..MaxLen, ret \in Returns :
        Transfer(r, w, ret)

CallTransferInPlace ==
    pc = "idle" /\ \E len \in 0..MaxLen, ret \in Returns :
        TransferInPlace(len, ret)

CallFlush ==
    pc = "idle" /\ \E ret \in Returns : Flush(ret)

CallTransaction ==
    pc = "idle" /\ \E operations \in OperationLists, submitRet \in Returns :
        \E flushRet \in FlushReturns(submitRet) :
            Transaction(operations, submitRet, flushRet)

Next ==
    \/ CallTransfer
    \/ CallTransferInPlace
    \/ CallFlush
    \/ CallTransaction
    \/ Release

Spec == Init /\ [][Next]_vars

----------------------------------------------------------------------------
(* What a returned call shows *)

\* the submissions of descriptors among the transport calls of the call
Submissions == SelectSeq(log, LAMBDA e : e.call # "flush")

\* the flushes among them
Flushes == SelectSeq(log, LAMBDA e : e.call = "flush")

\* the descriptors the transport received (every modelled call but flush submits first)
Submitted == IF log # << >> /\ log[1].call # "flush" THEN log[1].descs ELSE << >>

\* the descriptors that point into a buffer of operation i, in submission order
DescsOf(i) == SelectSeq(Submitted, LAMBDA d : d.tx_buf.op = i \/ d.rx_buf.op = i)

\* a returned call that plans a Transfer(read, write): the bus method or a transaction
PlansTransfers == pc = "returned" /\ entry \in {"transfer", "transaction"}

\* the whole of operation i's buffer `field`, as a slice
Whole(i, field) == [op |-> i, field |-> field, lo |-> 0, hi |-> Len(args[i][field])]

\* C1: a Transfer whose read buffer (length R) is shorter than its write buffer
\* (length W) yields exactly two descriptors, in this order: a duplex one writing
\* write[0..R] and reading into the whole read buffer, then a write-only one for
\* write[R..W] with no read target.
C1_ShortRead ==
    PlansTransfers =>
        \A i \in 1..Len(args) :
            LET R == Len(args[i].read)
                W == Len(args[i].write)
                ds == DescsOf(i)
            IN  args[i].tag = "Transfer" /\ R < W =>
                    /\ Len(ds) = 2
                    /\ ds[1].kind = "read_write"
                    /\ ds[1].tx_buf = [op |-> i, field |-> "write", lo |-> 0, hi |-> R]
                    /\ ds[1].rx_buf = Whole(i, "read")
                    /\ ds[2].kind = "write"
                    /\ ds[2].tx_buf = [op |-> i, field |-> "write", lo |-> R, hi |-> W]
                    /\ ds[2].rx_buf = NoBuf

C1_Witness ==
    /\ pc = "returned"
    /\ entry = "transaction"
    /\ result = Ok
    /\ Len(args) = 2
    /\ args[2].tag = "Transfer"
    /\ Len(args[2].read) = 1
    /\ Len(args[2].write) = 2
    /\ Len(DescsOf(2)) = 2

\* C2: a Transfer whose read buffer (length R) is longer than its write buffer
\* (length W) yields exactly two descriptors, in this order: a duplex one writing
\* the whole write buffer and reading into read[0..W], then a read-only one for
\* read[W..R] with no write source; every position of the read buffer lies in
\* exactly one of the two read targets.
C2_LongRead ==
    PlansTransfers =>
        \A i \in 1..Len(args) :
            LET R == Len(args[i].read)
                W == Len(args[i].write)
                ds == DescsOf(i)
            IN  args[i].tag = "Transfer" /\ R > W =>
                    /\ Len(ds) = 2
                    /\ ds[1].kind = "read_write"
                    /\ ds[1].tx_buf = Whole(i, "write")
                    /\ ds[1].rx_buf = [op |-> i, field |-> "read", lo |-> 0, hi |-> W]
                    /\ ds[2].kind = "read"
                    /\ ds[2].tx_buf = NoBuf
                    /\ ds[2].rx_buf = [op |-> i, field |-> "read", lo |-> W, hi |-> R]
                    /\ \A j \in 0..(R - 1) :
                           Cardinality({k \in 1..Len(ds) :
                               /\ ds[k].rx_buf.field = "read"
                               /\ ds[k].rx_buf.lo <= j
                               /\ j < ds[k].rx_buf.hi}) = 1

C2_Witness ==
    /\ pc = "returned"
    /\ entry = "transfer"
    /\ result = Ok
    /\ Len(args[1].read) = 2
    /\ Len(args[1].write) = 1
    /\ Len(Submitted) = 2
    /\ bufs[1].read = << 255 - 1, 255 - 0 >>

\* C3: a Transfer whose buffers have the same length (zero included) yields exactly
\* one descriptor, a duplex one over the whole write buffer and the whole read buffer.
C3_EqualLengths ==
    PlansTransfers =>
        \A i \in 1..Len(args) :
            LET ds == DescsOf(i)
            IN  args[i].tag = "Transfer" /\ Len(args[i].read) = Len(args[i].write) =>
                    /\ Len(ds) = 1
                    /\ ds[1].kind = "read_write"
                    /\ ds[1].tx_buf = Whole(i, "write")
                    /\ ds[1].rx_buf = Whole(i, "read")

C3_Witness ==
    /\ pc = "returned"
    /\ entry = "transaction"
    /\ result = Ok
    /\ \E i \in 1..Len(args) :
           /\ args[i].tag = "Transfer"
           /\ Len(args[i].read) = 2
           /\ Len(args[i].write) = 2
           /\ Len(DescsOf(i)) = 1

\* the DelayUs operations of the call, in the caller's order
DelayOps == SelectSeq(args, LAMBDA op : op.tag = "DelayUs")

\* the delay-only descriptors the transport received, in submission order
DelayDescs == SelectSeq(Submitted, LAMBDA d : d.kind = "delay")

\* C4: each DelayUs(d) of a transaction yields exactly one delay-only descriptor, of
\* duration min(d, 65535): exact up to 65535 and 65535 above it (so not d mod 2^16,
\* which differs from it for 65536 and 100000); no other descriptor carries a
\* delay, and the delay makes no call fail (the descriptors are submitted
\* whatever d is).
C4_DelaySaturates ==
    pc = "returned" /\ entry = "transaction" =>
        /\ Len(Submissions) = 1
        /\ Len(DelayDescs) = Len(DelayOps)
        /\ \A k \in 1..Len(DelayDescs) :
               LET d == DelayOps[k].us
                   got == DelayDescs[k]
               IN  /\ got.delay_usecs = (IF d < 65535 THEN d ELSE 65535)
                   /\ got.tx_buf = NoBuf
                   /\ got.rx_buf = NoBuf
        /\ \A k \in 1..Len(Submitted) :
               Submitted[k].kind # "delay" => Submitted[k].delay_usecs = 0

C4_Witness ==
    /\ pc = "returned"
    /\ entry = "transaction"
    /\ result = Ok
    /\ \E i \in 1..Len(args) : args[i].tag = "DelayUs" /\ args[i].us = 100000
    /\ \E i \in 1..Len(args) : args[i].tag = "DelayUs" /\ args[i].us = 100
    /\ \E k \in 1..Len(Submitted) : Submitted[k].delay_usecs = 65535
    /\ \E k \in 1..Len(Submitted) : Submitted[k].delay_usecs = 100

\* what a descriptor is and whose buffers it points into (0: none)
Shape(d) == [kind |-> d.kind, tx |-> d.tx_buf.op, rx |-> d.rx_buf.op]

\* the expansion the caller's operation i is to have, by kind and owner
ExpectedShapes(i) ==
    LET op == args[i]
        duplex == [kind |-> "read_write", tx |-> i, rx |-> i]
    IN  CASE op.tag = "Read" -> << [kind |-> "read", tx |-> 0, rx |-> i] >>
          [] op.tag = "Write" -> << [kind |-> "write", tx |-> i, rx |-> 0] >>
          [] op.tag = "DelayUs" -> << [kind |-> "delay", tx |-> 0, rx |-> 0] >>
          [] op.tag = "TransferInPlace" -> << duplex >>
          [] op.tag = "Transfer" /\ Len(op.read) < Len(op.write) ->
                 << duplex, [kind |-> "write", tx |-> i, rx |-> 0] >>
          [] op.tag = "Transfer" /\ Len(op.read) = Len(op.write) -> << duplex >>
          [] op.tag = "Transfer" /\ Len(op.read) > Len(op.write) ->
                 << duplex, [kind |-> "read", tx |-> 0, rx |-> i] >>

RECURSIVE ExpectedUpTo(_)
ExpectedUpTo(n) == IF n = 0 THEN << >> ELSE ExpectedUpTo(n - 1) \o ExpectedShapes(n)

\* C5: a transaction hands all its descriptors to the transport in exactly one
\* transfer_multiple call, and that list is the concatenation, in the caller's
\* order, of the operations' expansions: nothing dropped, duplicated or reordered.
C5_OneOrderedSubmission ==
    pc = "returned" /\ entry = "transaction" =>
        /\ Len(Submissions) = 1
        /\ log[1].call = "transfer_multiple"
        /\ [k \in 1..Len(Submitted) |-> Shape(Submitted[k])] = ExpectedUpTo(Len(args))

C5_Witness ==
    /\ pc = "returned"
    /\ entry = "transaction"
    /\ result = Ok
    /\ Len(args) = 2
    /\ args[1].tag = "Write" /\ Len(args[1].buf) = 2
    /\ args[2].tag = "Transfer" /\ Len(args[2].read) = 2 /\ Len(args[2].write) = 1
    /\ Len(Submitted) = 3

\* C6: when the submission of a transaction's descriptors fails, the call returns
\* that same error wrapped as the SPI error, flush is not called, and nothing is
\* submitted again.
C6_SubmitFailurePropagates ==
    pc = "returned" /\ entry = "transaction" /\ log[1].ret # "ok" =>
        /\ result = [ok |-> FALSE, err |-> log[1].ret]
        /\ Flushes = << >>
        /\ Len(Submissions) = 1

C6_Witness ==
    /\ pc = "returned"
    /\ entry = "transaction"
    /\ Len(Submitted) = 3
    /\ log[1].ret = "ETIMEDOUT"
    /\ result = [ok |-> FALSE, err |-> "ETIMEDOUT"]

\* C7: a transaction returns success exactly when its one submission and the flush
\* after it both succeeded; after a successful submission flush is called exactly
\* once, after the submission; a failing flush is what the call returns, although
\* every descriptor has run by then (each Read buffer holds what was clocked in).
C7_SuccessIffSubmitAndFlush ==
    pc = "returned" /\ entry = "transaction" =>
        /\ result.ok <=> (Len(log) = 2 /\ log[1].ret = "ok" /\ log[2].ret = "ok")
        /\ log[1].call = "transfer_multiple"
        /\ log[1].ret = "ok" =>
               /\ Len(log) = 2
               /\ log[2].call = "flush"
               /\ log[2].ret # "ok" =>
                      /\ result = [ok |-> FALSE, err |-> log[2].ret]
                      /\ \A i \in 1..Len(args) :
                             args[i].tag = "Read" =>
                                 \A j \in 1..Len(bufs[i].buf) : bufs[i].buf[j] = 255

C7_Witness ==
    /\ pc = "returned"
    /\ entry = "transaction"
    /\ Len(log) = 2
    /\ log[1].ret = "ok"
    /\ log[2].call = "flush"
    /\ log[2].ret = "EIO"
    /\ result = [ok |-> FALSE, err |-> "EIO"]
    /\ \E i \in 1..Len(args) : args[i].tag = "Read" /\ Len(args[i].buf) = 2

\* C8: an in-place transfer, by the bus method or inside a transaction, writes from
\* a snapshot of the buffer as it was before the call, held in storage other than
\* the read target; after success the buffer holds what the peripheral answers to
\* the original content.
C8_InPlaceSnapshot ==
    pc = "returned" /\ entry \in {"transfer_in_place", "transaction"} =>
        \A i \in 1..Len(args) :
            args[i].tag = "TransferInPlace" =>
                LET ds == DescsOf(i)
                IN  /\ Len(ds) = 1
                    /\ ds[1].kind = "read_write"
                    /\ ds[1].rx_buf = Whole(i, "buf")
                    /\ ~ Aliased(ds[1])
                    /\ SliceBytes(ds[1].tx_buf, args, tx) = args[i].buf
                    /\ result.ok =>
                           bufs[i].buf = [j \in 1..Len(args[i].buf) |->
                                              255 - args[i].buf[j]]

\* the part of C8 the bus method keeps: transfer_in_place writes from its owned copy
C8_BusInPlaceSnapshot ==
    pc = "returned" /\ entry = "transfer_in_place" => C8_InPlaceSnapshot

\* the transaction's in-place descriptor aliases, and the buffer can end up wrong
C8_TransactionAliases ==
    /\ pc = "returned"
    /\ entry = "transaction"
    /\ result.ok
    /\ \E i \in 1..Len(args) :
           /\ args[i].tag = "TransferInPlace"
           /\ Len(args[i].buf) = 2
           /\ Aliased(DescsOf(i)[1])
           /\ bufs[i].buf # [j \in 1..2 |-> 255 - args[i].buf[j]]

\* C9: every descriptor handed to the transport has a non-empty read target, a
\* non-empty write source, or is a delay.
C9_DescriptorPopulated ==
    pc = "returned" =>
        \A k \in 1..Len(Submitted) :
            LET d == Submitted[k]
            IN  \/ SliceLen(d.rx_buf) > 0
                \/ SliceLen(d.tx_buf) > 0
                \/ d.kind = "delay"

\* the same, for calls whose buffers are all non-empty
C9_PopulatedWhenBuffersNonEmpty ==
    (/\ pc = "returned"
     /\ \A i \in 1..Len(args) :
            /\ args[i].tag \in {"Read", "Write", "TransferInPlace"} => Len(args[i].buf) > 0
            /\ args[i].tag = "Transfer" => Len(args[i].read) > 0 /\ Len(args[i].write) > 0)
    => C9_DescriptorPopulated

\* C10: the bus method transfer(read, write) and transaction([Transfer(read, write)])
\* hand the transport the same descriptor list; the transaction flushes after a
\* successful submission and the bus method never flushes.
C10_SamePlanBothEntries ==
    /\ pc = "returned" /\ entry = "transfer" =>
           /\ Submitted = TransferOpTransfers(1, args[1].read, args[1].write)
           /\ Len(Submissions) = 1
           /\ Flushes = << >>
    /\ (/\ pc = "returned"
        /\ entry = "transaction"
        /\ Len(args) = 1
        /\ args[1].tag = "Transfer") =>
           /\ Submitted = BusTransferPlan(args[1].read, args[1].write).descs
           /\ Len(Submissions) = 1
           /\ Len(Flushes) = (IF log[1].ret = "ok" THEN 1 ELSE 0)

C10_Witness ==
    /\ pc = "returned"
    /\ entry = "transaction"
    /\ result = Ok
    /\ Len(args) = 1
    /\ args[1].tag = "Transfer"
    /\ Len(args[1].read) = 1
    /\ Len(args[1].write) = 2
    /\ Len(Submitted) = 2
    /\ Len(Flushes) = 1

====
